---- MODULE Spec2Model ----
(***************************************************************************)
(* Model of src/src/increase-time.js: an interactive terminal session that *)
(* resolves a student by login identifier, lists the student's exams, asks *)
(* for one of them and for a number of minutes, and extends the deadline   *)
(* (endDatetime) of the student's attempt record in a Redis hash.          *)
(*                                                                         *)
(* Strings typed at the prompt are sequences of one-character strings, so  *)
(* that trim(), toLowerCase() and parseInt() are computed character by     *)
(* character.  Redis hashes are functions from the fields that exist to    *)
(* the stored text; a stored text is [t |-> "json", v |-> value] (the      *)
(* serialisation of a JSON value) or [t |-> "garbage"] (not JSON).         *)
(* An ISO-8601 timestamp text is a record of what it says: its wall-clock  *)
(* time in milliseconds, the digits it carries below the millisecond, and  *)
(* its UTC-offset designator (or none: local time).                        *)
(***************************************************************************)
EXTENDS Integers, Sequences, FiniteSets, TLC

\* ------------------------------------------------------------------ bounds
\* Answers a session may be given at its prompts before the terminal goes quiet.
MaxPrompts == 4
\* Changes external systems make to the attempt records during a session.
MaxExternal == 1

\* --------------------------------------------------- characters and strings
\* The white space and line terminators String.prototype.trim strips: tab, line
\* feed, vertical tab, form feed, carriage return, space, no-break space, the
\* byte order mark U+FEFF, and the space separators and line terminators above
\* U+1000. A character that a TLA+ string cannot hold is written by the name
\* of its code point.
WhiteSpace ==
  {"\t", "\n", "", "\f", "\r", " ", " ", "﻿", " ",
   "U+2000", "U+2001", "U+2002", "U+2003", "U+2004", "U+2005", "U+2006",
   "U+2007", "U+2008", "U+2009", "U+200A", "U+2028", "U+2029", "U+202F",
   "U+205F", "U+3000"}

Digits == {"0", "1", "2", "3", "4", "5", "6", "7", "8", "9"}

DigitVal(c) ==
  CASE c = "0" -> 0 [] c = "1" -> 1 [] c = "2" -> 2 [] c = "3" -> 3
    [] c = "4" -> 4 [] c = "5" -> 5 [] c = "6" -> 6 [] c = "7" -> 7
    [] c = "8" -> 8 [] OTHER -> 9

\* String.prototype.toLowerCase on one character.
LowerChar(c) ==
  CASE c = "E" -> "e" [] c = "X" -> "x" [] c = "I" -> "i" [] c = "T" -> "t"
    [] OTHER -> c

toLowerCase(s) == [i \in 1..Len(s) |-> LowerChar(s[i])]

RECURSIVE TrimStart(_)
TrimStart(s) ==
  IF s # <<>> /\ Head(s) \in WhiteSpace THEN TrimStart(Tail(s)) ELSE s

RECURSIVE TrimEnd(_)
TrimEnd(s) ==
  IF s # <<>> /\ s[Len(s)] \in WhiteSpace
    THEN TrimEnd(SubSeq(s, 1, Len(s) - 1))
    ELSE s

\* String.prototype.trim
trim(s) == TrimEnd(TrimStart(s))

\* A JavaScript number that may be NaN.
NaN == [nan |-> TRUE, n |-> 0]

Num(n) == [nan |-> FALSE, n |-> n]

RECURSIVE DigitPrefix(_, _)
\* The value of the longest prefix of digits of s, read after the digits acc.
DigitPrefix(s, acc) ==
  IF s # <<>> /\ Head(s) \in Digits
    THEN DigitPrefix(Tail(s), 10 * acc + DigitVal(Head(s)))
    ELSE acc

\* parseInt(s, 10): leading white space skipped, an optional sign, then the
\* longest prefix of decimal digits; NaN when there is no digit.
parseInt(s) ==
  LET t == TrimStart(s)
      neg == t # <<>> /\ Head(t) = "-"
      u == IF t # <<>> /\ Head(t) \in {"-", "+"} THEN Tail(t) ELSE t
  IN IF u = <<>> \/ Head(u) \notin Digits
       THEN NaN
       ELSE Num(IF neg THEN 0 - DigitPrefix(u, 0) ELSE DigitPrefix(u, 0))

ExitWord == <<"e", "x", "i", "t">>

\* askQuestion's test of the trimmed answer, ignoring letter case.
IsCancelCaseSensitive(answer) == trim(answer) = ExitWord

IsCancel(answer) == toLowerCase(trim(answer)) = ExitWord

\* The lines the operator may type at a prompt.
Lines ==
  { <<" ", "a">>, <<"b">>, <<"c">>,
    ExitWord, <<"\t", "E", "x", "I", "T", " ">>,
    <<"1">>, <<"\t", "2", " ">>, <<"0">>, <<"-", "1">>,
    <<"2", "x">>, <<"x", "2">>, <<"1", "2">>, <<>> }

\* ------------------------------------------------------- JavaScript values
Undefined == [k |-> "undefined"]

Null == [k |-> "null"]

\* A JSON object: o is the record of its own properties, order the sequence of
\* its keys as for-in enumerates them.
ObjIn(order, o) == [k |-> "object", o |-> o, order |-> order]

\* A JSON object whose enumeration order nothing reads.
Obj(o) == ObjIn(<<>>, o)

\* A JSON array.
Arr(items) == [k |-> "array", items |-> items]

\* A string that is no ISO-8601 timestamp.
Text(s) == [k |-> "text", s |-> s]

\* An ISO-8601 timestamp text: wall-clock milliseconds since 1970-01-01T00:00,
\* the digits below the millisecond (in microseconds), and the designator:
\* none (local time) or an offset from UTC in minutes.
Iso(wall, frac, local, off) ==
  [k |-> "iso", wall |-> wall, frac |-> frac, local |-> local, off |-> off]

\* A JavaScript string, boolean or integer is the TLA+ value itself; undefined,
\* null, objects, arrays and the texts of timestamps are the tagged records
\* above. A tagged record prints with a bracket first, a string with a quote.
IsTagged(v) == SubSeq(ToString(v), 1, 1) = "["

IsString(v) == SubSeq(ToString(v), 1, 1) = "\""

\* ToBoolean(v): false for undefined, null, false, 0 and the empty string.
Truthy(v) ==
  IF IsTagged(v)
    THEN /\ v.k \notin {"undefined", "null"}
         /\ ~(v.k = "text" /\ v.s = "")
    ELSE ToString(v) \notin {"\"\"", "FALSE", "0"}

\* A value held by reference: an object or an array.
IsReference(v) == IsTagged(v) /\ v.k \in {"object", "array", "DateTime"}

\* A string, written as the TLA+ string or as Text(s).
IsText(v) == IsString(v) \/ (IsTagged(v) /\ v.k = "text")

TextOf(v) == IF IsString(v) THEN v ELSE v.s

\* a === b for two values read apart (two results of JSON.parse, or two places
\* of one result): never equal across types, and an object or an array equals
\* nothing but itself.
StrictEquals(a, b) ==
  IF IsText(a) \/ IsText(b) THEN IsText(a) /\ IsText(b) /\ TextOf(a) = TextOf(b)
  ELSE IF IsTagged(a) # IsTagged(b) THEN FALSE
  ELSE IF ~IsTagged(a) THEN ToString(a) = ToString(b)
  ELSE IF IsReference(a) \/ IsReference(b) THEN FALSE
  ELSE a.k = b.k /\ a = b

RECURSIVE TemplateText(_)
RECURSIVE JoinText(_)
\* Array.prototype.join(","): null and undefined items give no characters.
JoinText(items) ==
  IF items = <<>> THEN ""
  ELSE LET head == IF IsTagged(Head(items)) /\ Head(items).k \in {"undefined", "null"}
                     THEN "" ELSE TemplateText(Head(items))
       IN IF Len(items) = 1 THEN head
          ELSE head \o "," \o JoinText(Tail(items))

\* `${v}` in a template literal: ToString(v), which joins the items of an array.
TemplateText(v) ==
  IF IsString(v) THEN v
  ELSE IF ~IsTagged(v)
    THEN (CASE ToString(v) = "TRUE" -> "true"
            [] ToString(v) = "FALSE" -> "false"
            [] OTHER -> ToString(v))
  ELSE CASE v.k = "undefined" -> "undefined"
         [] v.k = "null" -> "null"
         [] v.k = "text" -> v.s
         [] v.k = "array" -> JoinText(v.items)
         [] OTHER -> "[object Object]"

\* v is an object with an own property f.
Has(v, f) == IsTagged(v) /\ v.k = "object" /\ f \in DOMAIN v.o

\* The property f of v, undefined when v has none.
Prop(v, f) == IF Has(v, f) THEN v.o[f] ELSE Undefined

\* --------------------------------------------------------- luxon DateTime
InvalidDateTime(zone) == [k |-> "DateTime", valid |-> FALSE, ts |-> 0, zone |-> zone]

\* DateTime.fromISO(text) in a system whose zone is `zone` minutes east of UTC:
\* the offset in the text fixes the instant, a text without one is local time;
\* digits below the millisecond are dropped; the result is in the system zone.
fromISO(text, zone) ==
  IF text.k = "iso"
    THEN [k |-> "DateTime", valid |-> TRUE,
          ts |-> text.wall - (IF text.local THEN zone ELSE text.off) * 60 * 1000,
          zone |-> zone]
    ELSE InvalidDateTime(zone)

\* DateTime.plus({seconds}): an invalid DateTime stays invalid.
plus(dt, seconds) ==
  IF dt.valid THEN [dt EXCEPT !.ts = @ + seconds * 1000] ELSE dt

\* toJSON with the zone's offset stated and the wall clock left at UTC.
toJSONUnshifted(dt) ==
  IF dt.valid
    THEN Iso(dt.ts, 0, FALSE, dt.zone)
    ELSE Null

\* DateTime.toJSON() = toISO(): the wall clock of the DateTime's zone with
\* millisecond precision and the zone's offset; null for an invalid DateTime.
toJSON(dt) ==
  IF dt.valid
    THEN Iso(dt.ts + dt.zone * 60 * 1000, 0, FALSE, dt.zone)
    ELSE Null

\* The instant an ISO text denotes, in whole milliseconds since the epoch (the
\* digits below the millisecond are text.frac).
InstantMs(text, zone) ==
  text.wall - (IF text.local THEN zone ELSE text.off) * 60 * 1000

\* ------------------------------------------------------------ stored texts
Garbage == [k |-> "string", t |-> "garbage", v |-> Null]

\* The stored text of no characters.
EmptyText == [k |-> "string", t |-> "empty", v |-> Null]

\* JSON.stringify of a value that holds no DateTime.
Json(v) == [k |-> "string", t |-> "json", v |-> v]

\* JSON.stringify(examQuestions): a DateTime serialises through toJSON().
JSONstringify(v) ==
  IF v.k = "object"
    THEN Json(ObjIn(v.order,
                    [f \in DOMAIN v.o |->
                      IF f = "endDatetime" /\ v.o[f].k = "DateTime"
                        THEN toJSON(v.o[f])
                        ELSE v.o[f]]))
    ELSE Json(v)

\* redisClient.hGet(hash, field): the stored text, or null.
hGet(hash, field) == IF field \in DOMAIN hash THEN hash[field] ELSE Null

\* A write that only updates a field the hash still has.
hSetIfExists(hash, field, text) ==
  [f \in DOMAIN hash |-> IF f = field THEN text ELSE hash[f]]

\* redisClient.hSet(hash, field, text): the hash afterwards.
hSet(hash, field, text) ==
  [f \in DOMAIN hash \cup {field} |-> IF f = field THEN text ELSE hash[f]]

\* HDEL by an external system.
hDel(hash, field) == [f \in DOMAIN hash \ {field} |-> hash[f]]

\* The parse answering an empty object where it should answer null.
ParseOrEmpty(ok, data) ==
  IF ~ok \/ data.k = "null" \/ data.t \in {"garbage", "empty"}
    THEN Obj(<<>>)
    ELSE data.v

\* JSON.parse(data) throws: the read answered a text that is no JSON (the
\* text of no characters is falsy and is not parsed).
ParseThrows(ok, data) == ok /\ data.k = "string" /\ data.t = "garbage"

\* `data ? JSON.parse(data) : null` inside try/catch (lines 78-82, 88-92,
\* 101-108): null when the read failed, found nothing, or the text is no JSON.
ParseOrNull(ok, data) ==
  IF ~ok \/ data.k = "null" \/ data.t \in {"garbage", "empty"}
    THEN Null
    ELSE data.v

\* ------------------------------------------------ the extension (150-155)
\* The extension with the minutes taken for seconds.
extendAttemptBySeconds(attempt, minutes, zone) ==
  ObjIn(attempt.order,
        [f \in DOMAIN attempt.o \cup {"isFinished", "endDatetime"} |->
          CASE f = "isFinished" -> FALSE
            [] f = "endDatetime" ->
                 plus(fromISO(Prop(attempt, "endDatetime"), zone), minutes)
            [] OTHER -> attempt.o[f]])

\* The extension without the assignment to isFinished.
extendAttemptKeepFinished(attempt, minutes, zone) ==
  ObjIn(attempt.order,
        [f \in DOMAIN attempt.o \cup {"endDatetime"} |->
          IF f = "endDatetime"
            THEN plus(fromISO(Prop(attempt, "endDatetime"), zone), minutes * 60)
            ELSE attempt.o[f]])

\* The extension leaving an endDatetime that does not parse as it was read.
extendAttemptKeepingUnparsed(attempt, minutes, zone) ==
  ObjIn(attempt.order,
        [f \in DOMAIN attempt.o \cup {"isFinished", "endDatetime"} |->
          CASE f = "isFinished" -> FALSE
            [] f = "endDatetime" ->
                 IF fromISO(Prop(attempt, "endDatetime"), zone).valid
                   THEN plus(fromISO(Prop(attempt, "endDatetime"), zone), minutes * 60)
                   ELSE Prop(attempt, "endDatetime")
            [] OTHER -> attempt.o[f]])

\* studentExamAttempt.isFinished = false; studentExamAttempt.endDatetime =
\* DateTime.fromISO(studentExamAttempt.endDatetime).plus({seconds: minutes * 60})
\* on the parsed record: every other property is left as parsed.
extendAttempt(attempt, minutes, zone) ==
  ObjIn(attempt.order,
        [f \in DOMAIN attempt.o \cup {"isFinished", "endDatetime"} |->
          CASE f = "isFinished" -> FALSE
            [] f = "endDatetime" ->
                 plus(fromISO(Prop(attempt, "endDatetime"), zone), minutes * 60)
            [] OTHER -> attempt.o[f]])

\* `${studentId}-${examId}`
AttemptKey(studentId, examId) ==
  TemplateText(studentId) \o "-" \o TemplateText(examId)

\* ------------------------------------------------- the exam list (193-234)
\* The values a for-in over studentExams visits, in order.
ForIn(exams) ==
  IF exams.k = "array"
    THEN exams.items
    ELSE [i \in 1..Len(exams.order) |-> exams.o[exams.order[i]]]

\* Object.keys(studentExams).length
KeyCount(exams) ==
  IF exams.k = "array" THEN Len(exams.items) ELSE Cardinality(DOMAIN exams.o)

\* `exam && exam.title && exam.id`
Listable(exam) ==
  Truthy(exam) /\ Truthy(Prop(exam, "title")) /\ Truthy(Prop(exam, "id"))

\* examChoices as the for-in loop builds it: the listable exams, numbered from 1.
BuildChoices(exams) ==
  LET listed == SelectSeq(ForIn(exams), Listable)
  IN [i \in 1..Len(listed) |->
       [index |-> i, examId |-> listed[i].o.id, title |-> listed[i].o.title]]

\* The find with the choices taken as numbered from 0.
MatchingChoicesFromZero(choices, parsed) ==
  {i \in 1..Len(choices) : ~parsed.nan /\ choices[i].index = parsed.n + 1}

\* examChoices.find(choice => choice.index === parsedChoice): the positions
\* that match (NaN equals nothing).
MatchingChoices(choices, parsed) ==
  {i \in 1..Len(choices) : ~parsed.nan /\ choices[i].index = parsed.n}

\* What a call that threw leaves in place of its result.
TypeError == [k |-> "TypeError"]

\* The positions in the array of the exams the listing shows, in order: choice
\* number n was built from the item at ListedFrom(exams)[n].
ListedFrom(exams) ==
  SelectSeq([i \in 1..Len(exams.items) |-> i],
            LAMBDA i : Listable(exams.items[i]))

\* studentExams.find(({ id }) => id === examId) on an array: the first item of
\* that id. examId is the id of the item at position `from` (examChoices keeps
\* the id itself, 213): an id that is an object or an array is equal to the id
\* of that item and of no other. The callback destructures its argument: an
\* item that is null or undefined, met before an item of that id, makes the
\* call throw.
FindExam(exams, examId, from) ==
  LET nullish(v) == IsTagged(v) /\ v.k \in {"null", "undefined"}
      same(i) == IF IsReference(examId) THEN i = from
                 ELSE StrictEquals(Prop(exams.items[i], "id"), examId)
      stops == {i \in 1..Len(exams.items) :
                  nullish(exams.items[i]) \/ same(i)}
      first == CHOOSE i \in stops : \A j \in stops : i <= j
  IN IF stops = {} THEN Undefined
     ELSE IF nullish(exams.items[first]) THEN TypeError
     ELSE exams.items[first]

\* The test with 0 minutes let through.
MinutesAcceptedWithZero(parsed) == ~parsed.nan /\ parsed.n >= 0

\* `isNaN(timeToAdd) || timeToAdd <= 0` negated: the minutes prompt accepts.
MinutesAccepted(parsed) == ~parsed.nan /\ parsed.n > 0

\* ----------------------------------------------------------------- fixtures
Math == Obj([id |-> "e1", title |-> "Math"])

Bio == Obj([id |-> "e2", title |-> "Bio"])

Untitled == Obj([id |-> "e1"])

Nameless == Obj([id |-> "e1", title |-> ""])

Unnumbered == Obj([id |-> "", title |-> "Art"])

\* What external systems may have stored as the exam list of student s1. The
\* ids stored are strings.
ExamLists ==
  { Json(Arr(<<Math, Bio>>)),
    Json(Obj([exams |-> Arr(<<Math, Bio>>)])),
    Json(ObjIn(<<"e1", "e2">>, [e1 |-> Math, e2 |-> Bio])),
    Json(Arr(<<Untitled, Nameless, Unnumbered, Bio>>)),
    Json(Arr(<<Null, Math>>)),
    Json(Arr(<<>>)),
    Garbage }

\* student-login-new: a full record, a record with no id, and a text that is
\* no JSON.
Logins ==
  (<<"a">> :> Json(Obj([id |-> "s1", name |-> "Ann"])))
    @@ (<<"b">> :> Json(Obj([name |-> "Bob"])))
    @@ (<<"c">> :> Garbage)

\* The system's time zone, in minutes east of UTC.
Zones == {0, 60}

\* endDatetime as stored: 00:10:00.000Z, the same instant at +01:00, a local
\* time, a text with microseconds, a text that is no timestamp.
EndDatetimes ==
  { Iso(600000, 0, FALSE, 0), Iso(4200000, 0, FALSE, 60), Iso(600000, 0, TRUE, 0),
    Iso(600000, 250, FALSE, 0), Text("soon") }

\* Attempt records as external systems store them: a finished attempt with each
\* endDatetime, and a record with isFinished false, without it, without either.
Attempts ==
  { Obj([answers |-> "A", isFinished |-> TRUE, endDatetime |-> e]) :
      e \in EndDatetimes }
  \cup { Obj([answers |-> "A", isFinished |-> FALSE,
              endDatetime |-> Iso(600000, 0, FALSE, 0)]),
         Obj([answers |-> "A", endDatetime |-> Iso(600000, 0, FALSE, 0)]),
         Obj([answers |-> "A", isFinished |-> TRUE]) }

\* The attempt fields of student s1, and an attempt of another student.
OwnKeys == {AttemptKey("s1", "e1"), AttemptKey("s1", "e2")}

\* What the attempts hash may hold for student s1 when the session starts: one
\* of the attempts under exam e1, or a text that is no JSON, or an unfinished
\* attempt under exam e2.
OwnAttempts ==
  { AttemptKey("s1", "e1") :> Json(a) : a \in Attempts }
  \cup { AttemptKey("s1", "e1") :> Garbage,
         AttemptKey("s1", "e2") :>
           Json(Obj([answers |-> "A", isFinished |-> FALSE,
                     endDatetime |-> Iso(600000, 0, FALSE, 0)])) }

OtherKey == AttemptKey("s2", "e1")

OtherAttempt ==
  Json(Obj([answers |-> "B", isFinished |-> TRUE,
            endDatetime |-> Iso(600000, 0, FALSE, 0)]))

\* -------------------------------------------------------------------- state
VARIABLES
  zone,              \* the system's time zone, minutes east of UTC
  studentLoginNew,   \* hash student-login-new: identifier -> login record
  studentsssNew,     \* hash studentsss-new: student id -> exam list
  studentExamsNew,   \* hash student-exams-new: "<studentId>-<examId>" -> attempt
  isOpen,            \* redisClient.isOpen
  pc,                \* where runTerminalTool (or gracefulExit) stands
  answer,            \* the line last typed at a prompt, as typed
  asked,             \* how many lines were typed
  studentEmail,      \* runTerminalTool's locals
  student,
  studentExams,
  examChoices,
  selectedExam,
  choiceInput,
  timeToAdd,
  attemptKey,        \* the field fetchStudentExamAttempt asked for
  examAttemptData,   \* the text hGet answered with (null: no such field)
  attemptRead,       \* what fetchStudentExamAttempt returned
  studentExamAttempt,\* the record increaseStudentExamTime holds, as mutated
  reads,             \* hGet commands sent, per hash
  writes,            \* hSet commands sent, in order
  quits,             \* quit commands sent
  console,           \* the status lines printed
  externals,         \* changes made by external systems
  connects,          \* connect() calls made
  failed,            \* the commands of this session that failed
  past               \* what the sessions run before this one did

vars ==
  <<zone, studentLoginNew, studentsssNew, studentExamsNew, isOpen, pc, answer,
    asked, studentEmail, student, studentExams, examChoices, selectedExam,
    choiceInput, timeToAdd, attemptKey, examAttemptData, attemptRead,
    studentExamAttempt, reads, writes, quits, console, externals, connects,
    failed, past>>

store == <<studentLoginNew, studentsssNew, studentExamsNew>>

locals ==
  <<studentEmail, student, studentExams, examChoices, selectedExam, choiceInput,
    timeToAdd, attemptKey, examAttemptData, attemptRead, studentExamAttempt>>

Init ==
  /\ zone \in Zones
  /\ studentLoginNew = Logins
  /\ \/ studentsssNew = <<>>
     \/ \E list \in ExamLists : studentsssNew = ("s1" :> list)
  /\ \/ studentExamsNew = (OtherKey :> OtherAttempt)
     \/ \E text \in OwnAttempts :
          studentExamsNew = (OtherKey :> OtherAttempt) @@ text
  /\ isOpen = FALSE
  /\ pc = "connectRedis"
  /\ answer = <<>>
  /\ asked = 0
  /\ studentEmail = <<>>
  /\ student = Undefined
  /\ studentExams = Undefined
  /\ examChoices = <<>>
  /\ selectedExam = Undefined
  /\ choiceInput = <<>>
  /\ timeToAdd = NaN
  /\ attemptKey = ""
  /\ examAttemptData = Undefined
  /\ attemptRead = Undefined
  /\ studentExamAttempt = Undefined
  /\ reads = [login |-> 0, exams |-> 0, attempts |-> 0]
  /\ writes = <<>>
  /\ quits = 0
  /\ console = {}
  /\ externals = 0
  /\ connects = 0
  /\ failed = {}
  /\ past = <<>>

\* ------------------------------------------------------------------ actions
\* connectRedis whose catch logs the failure and does not throw it on.
connectRedisSwallowing(ok, open) ==
  /\ pc = "connectRedis"
  /\ isOpen' = (ok \/ open)
  /\ connects' = connects + 1
  /\ failed' = failed \cup (IF ok THEN {} ELSE {"connect"})
  /\ pc' = "askEmail"
  /\ console' = console \cup (IF ok THEN {"connected"} ELSE {"connectFailed"})
  /\ UNCHANGED <<zone, past, store, answer, asked, locals, reads, writes, quits, externals>>

\* connectRedis (41-63) as runTerminalTool calls it (170): the connection opens,
\* or connect() rejects and the catch (269) and finally (271) follow. Whether
\* the client that failed to connect reports isOpen is the client library's
\* affair: `open` is either.
connectRedis(ok, open) ==
  /\ pc = "connectRedis"
  /\ isOpen' = (ok \/ open)
  /\ connects' = connects + 1
  /\ failed' = failed \cup (IF ok THEN {} ELSE {"connect"})
  /\ pc' = IF ok THEN "askEmail" ELSE "finally"
  /\ console' = console \cup (IF ok THEN {"connected"} ELSE {"connectFailed", "caught"})
  /\ UNCHANGED <<zone, past, store, answer, asked, locals, reads, writes, quits, externals>>

\* disconnectRedis sending nothing.
disconnectRedisNoQuit(open, n, ok, still) == <<open, n, FALSE>>

\* disconnectRedis (65-70): quit when the client is open. The state of isOpen,
\* the number of quit commands sent and whether the call threw: quit() may be
\* rejected, and nothing catches that; whether the client then still reports
\* itself open is the client library's affair (`still`).
disconnectRedis(open, n, ok, still) ==
  IF ~open THEN <<open, n, FALSE>>
  ELSE IF ok THEN <<FALSE, n + 1, FALSE>>
  ELSE <<still, n + 1, TRUE>>

\* askQuestion (26-39) answered with a line that is the cancellation token:
\* gracefulExit is called and the promise never resolves.
Cancel(line) ==
  /\ answer' = line
  /\ asked' = asked + 1
  /\ pc' = "gracefulExit"
  /\ console' = console \cup {"exiting"}
  /\ UNCHANGED <<zone, past, connects, failed, store, isOpen, locals, reads, writes, quits, externals>>

\* The identifier prompt (176-179).
askEmail(line) ==
  /\ pc = "askEmail"
  /\ asked < MaxPrompts
  /\ IF IsCancel(line)
       THEN Cancel(line)
       ELSE /\ answer' = line
            /\ asked' = asked + 1
            /\ studentEmail' = trim(line)
            /\ pc' = "fetchStudentLogin"
            /\ UNCHANGED <<zone, past, connects, failed, store, isOpen, student, studentExams, examChoices,
                           selectedExam, choiceInput, timeToAdd, attemptKey,
                           examAttemptData, attemptRead, studentExamAttempt, reads, writes, quits,
                           console, externals>>

\* The loop left whatever the lookup returned.
StudentFoundAlways(s) == TRUE

\* `while (!student)` (175) negated: the identifier prompt is left.
StudentFound(s) == Truthy(s)

\* fetchStudentLogin (72-83) and the loop test (175, 181-187).
fetchStudentLogin(ok) ==
  /\ pc = "fetchStudentLogin"
  /\ reads' = [reads EXCEPT !.login = @ + 1]
  /\ student' = ParseOrNull(ok, hGet(studentLoginNew, studentEmail))
  /\ failed' = failed \cup (IF ok THEN {} ELSE {"hGet login"})
  /\ pc' = IF StudentFound(student') THEN "fetchStudentExams" ELSE "askEmail"
  /\ console' = console
       \cup (IF ~ok \/ ParseThrows(ok, hGet(studentLoginNew, studentEmail))
               THEN {"fetchError"} ELSE {})
                        \cup (IF StudentFound(student') THEN {"found"} ELSE {"notFound"})
  /\ UNCHANGED <<zone, past, connects, store, isOpen, answer, asked, studentEmail, studentExams,
                 examChoices, selectedExam, choiceInput, timeToAdd, attemptKey,
                 examAttemptData, attemptRead, studentExamAttempt, writes, quits, externals>>

\* fetchStudentExams (85-93), the choice of the list (196), the test for no
\* exams (198-203) and the listing (205-216). A student without an id makes
\* the client reject the command before it is sent.
fetchStudentExams(ok) ==
  /\ pc = "fetchStudentExams"
  /\ LET sent == IsString(Prop(student, "id"))
         text == IF sent THEN hGet(studentsssNew, student.o.id) ELSE Null
         data == IF sent THEN ParseOrNull(ok, text) ELSE Null
         exams == IF Truthy(Prop(data, "exams")) THEN Prop(data, "exams") ELSE data
         none == ~Truthy(exams) \/ KeyCount(exams) = 0
     IN /\ reads' = [reads EXCEPT !.exams = @ + (IF sent THEN 1 ELSE 0)]
        /\ studentExams' = exams
        /\ failed' = failed \cup (IF sent /\ ok THEN {} ELSE {"hGet exams"})
        /\ examChoices' = IF none THEN <<>> ELSE BuildChoices(exams)
        /\ pc' = IF none THEN "finally" ELSE "askChoice"
        /\ console' = console
             \cup (IF sent /\ ok /\ ~ParseThrows(ok, text) THEN {} ELSE {"fetchError"})
                              \cup (IF none THEN {"noExams"} ELSE {"listed"})
  /\ UNCHANGED <<zone, past, connects, store, isOpen, answer, asked, studentEmail, student,
                 selectedExam, choiceInput, timeToAdd, attemptKey, examAttemptData,
                 attemptRead, studentExamAttempt, writes, quits, externals>>

\* The selection prompt (220-246): the choice whose index the parsed number
\* equals, then the exam of that id in studentExams. studentExams.find exists
\* on an array only: on an object the call throws and the catch (269) follows.
askChoice(line) ==
  /\ pc = "askChoice"
  /\ asked < MaxPrompts
  /\ IF IsCancel(line)
       THEN Cancel(line)
       ELSE LET hits == MatchingChoices(examChoices, parseInt(trim(line)))
                choice == examChoices[CHOOSE i \in hits : TRUE]
                isArray == studentExams.k = "array"
                found == IF hits = {} THEN Undefined
                         ELSE IF isArray
                           THEN FindExam(studentExams, choice.examId,
                                         ListedFrom(studentExams)[choice.index])
                           ELSE TypeError
                threw == found.k = "TypeError"
            IN /\ answer' = line
               /\ asked' = asked + 1
               /\ choiceInput' = trim(line)
               /\ selectedExam' = IF threw THEN Undefined ELSE found
               /\ pc' = IF threw THEN "finally"
                        ELSE IF Truthy(found) THEN "askMinutes"
                        ELSE "askChoice"
               /\ console' = console \cup
                    (IF hits = {} THEN {"invalidSelection"}
                     ELSE IF threw THEN {"caught"}
                     ELSE IF Truthy(found) THEN {"selected"}
                     ELSE {"missingExam"})
               /\ UNCHANGED <<zone, past, connects, failed, store, isOpen, studentEmail, student,
                              studentExams, examChoices, timeToAdd, attemptKey,
                              examAttemptData, attemptRead, studentExamAttempt, reads, writes, quits,
                              externals>>

\* The minutes prompt (251-266) and the entry of increaseStudentExamTime
\* (268, 133-136).
askMinutes(line) ==
  /\ pc = "askMinutes"
  /\ asked < MaxPrompts
  /\ IF IsCancel(line)
       THEN Cancel(line)
       ELSE LET parsed == parseInt(trim(line))
                accepted == MinutesAccepted(parsed)
                valid == Truthy(student) /\ Truthy(Prop(student, "id"))
            IN /\ answer' = line
               /\ asked' = asked + 1
               /\ timeToAdd' = parsed
               /\ pc' = IF ~accepted THEN "askMinutes"
                        ELSE IF valid THEN "fetchStudentExamAttempt"
                        ELSE "finally"
               /\ console' = console \cup
                    (IF ~accepted THEN {"invalidMinutes"}
                     ELSE IF valid THEN {}
                     ELSE {"invalidStudent"})
               /\ UNCHANGED <<zone, past, connects, failed, store, isOpen, studentEmail, student,
                              studentExams, examChoices, selectedExam, choiceInput,
                              attemptKey, examAttemptData, attemptRead, studentExamAttempt, reads,
                              writes, quits, externals>>

\* `!studentExamAttempt` (143)
AttemptMissing(attempt) == ~Truthy(attempt)

\* fetchStudentExamAttempt whose catch prints nothing.
fetchStudentExamAttemptSilent(ok) ==
  /\ pc = "fetchStudentExamAttempt"
  /\ LET key == AttemptKey(student.o.id, selectedExam.o.id)
         data == IF ok THEN hGet(studentExamsNew, key) ELSE Undefined
         attempt == ParseOrNull(ok, data)
     IN /\ reads' = [reads EXCEPT !.attempts = @ + 1]
        /\ attemptKey' = key
        /\ examAttemptData' = data
        /\ failed' = failed \cup (IF ok THEN {} ELSE {"hGet attempt"})
        /\ attemptRead' = attempt
        /\ studentExamAttempt' =
             IF Truthy(attempt)
               THEN extendAttempt(attempt, timeToAdd.n, zone)
               ELSE attempt
        /\ pc' = IF AttemptMissing(attempt) THEN "finally" ELSE "addStudentExamAttempt"
        /\ console' = console \cup (IF AttemptMissing(attempt) THEN {"noAttempt"} ELSE {})
  /\ UNCHANGED <<zone, past, connects, store, isOpen, answer, asked, studentEmail, student,
                 studentExams, examChoices, selectedExam, choiceInput, timeToAdd,
                 writes, quits, externals>>

\* fetchStudentExamAttempt (95-109) for the student and the selected exam, the
\* test for no attempt (143-148) and the update of the record held (150-155).
fetchStudentExamAttempt(ok) ==
  /\ pc = "fetchStudentExamAttempt"
  /\ LET key == AttemptKey(student.o.id, selectedExam.o.id)
         data == IF ok THEN hGet(studentExamsNew, key) ELSE Undefined
         attempt == ParseOrNull(ok, data)
     IN /\ reads' = [reads EXCEPT !.attempts = @ + 1]
        /\ attemptKey' = key
        /\ examAttemptData' = data
        /\ failed' = failed \cup (IF ok THEN {} ELSE {"hGet attempt"})
        /\ attemptRead' = attempt
        /\ studentExamAttempt' =
             IF Truthy(attempt)
               THEN extendAttempt(attempt, timeToAdd.n, zone)
               ELSE attempt
        /\ pc' = IF AttemptMissing(attempt) THEN "finally" ELSE "addStudentExamAttempt"
        /\ console' = console
             \cup (IF ~ok \/ ParseThrows(ok, data) THEN {"fetchError"} ELSE {})
             \cup (IF AttemptMissing(attempt) THEN {"noAttempt"} ELSE {})
  /\ UNCHANGED <<zone, past, connects, store, isOpen, answer, asked, studentEmail, student,
                 studentExams, examChoices, selectedExam, choiceInput, timeToAdd,
                 writes, quits, externals>>

\* The command with the two ids of the field in the wrong order.
WriteCommandSwapped(studentId, examId, examQuestions) ==
  [hash |-> "student-exams-new",
   field |-> AttemptKey(examId, studentId),
   text |-> JSONstringify(examQuestions)]

\* The hSet command addStudentExamAttempt sends (113-117).
WriteCommand(studentId, examId, examQuestions) ==
  [hash |-> "student-exams-new",
   field |-> AttemptKey(studentId, examId),
   text |-> JSONstringify(examQuestions)]

\* addStudentExamAttempt sending its command twice.
addStudentExamAttemptTwice(ok) ==
  /\ pc = "addStudentExamAttempt"
  /\ LET cmd == WriteCommand(student.o.id, selectedExam.o.id, studentExamAttempt)
     IN /\ writes' = Append(Append(writes, cmd), cmd)
        /\ studentExamsNew' =
             IF ok THEN hSet(studentExamsNew, cmd.field, cmd.text) ELSE studentExamsNew
  /\ failed' = failed \cup (IF ok THEN {} ELSE {"hSet"})
  /\ console' = console \cup {IF ok THEN "added" ELSE "addFailed", "success"}
  /\ pc' = "finally"
  /\ UNCHANGED <<zone, past, connects, studentLoginNew, studentsssNew, isOpen, answer, asked,
                 locals, reads, quits, externals>>

\* addStudentExamAttempt (111-125) as increaseStudentExamTime calls it (157),
\* and the status line that follows (159-161) whether or not hSet failed.
addStudentExamAttempt(ok) ==
  /\ pc = "addStudentExamAttempt"
  /\ LET cmd == WriteCommand(student.o.id, selectedExam.o.id, studentExamAttempt)
     IN /\ writes' = Append(writes, cmd)
        /\ studentExamsNew' =
             IF ok THEN hSet(studentExamsNew, cmd.field, cmd.text) ELSE studentExamsNew
  /\ failed' = failed \cup (IF ok THEN {} ELSE {"hSet"})
  /\ console' = console \cup {IF ok THEN "added" ELSE "addFailed", "success"}
  /\ pc' = "finally"
  /\ UNCHANGED <<zone, past, connects, studentLoginNew, studentsssNew, isOpen, answer, asked,
                 locals, reads, quits, externals>>

\* The finally block (271-276): disconnectRedis, rl.close. When quit() is
\* rejected rl.close is not reached and the promise of runTerminalTool is
\* rejected with nothing to handle it (280).
Finally(ok, still) ==
  /\ pc = "finally"
  /\ LET after == disconnectRedis(isOpen, quits, ok, still)
     IN /\ isOpen' = after[1]
        /\ quits' = after[2]
        /\ pc' = IF after[3] THEN "rejected" ELSE "closed"
        /\ failed' = failed \cup (IF after[3] THEN {"quit"} ELSE {})
        /\ console' = console \cup
             (IF isOpen /\ ~after[3] THEN {"disconnected"} ELSE {})
  /\ UNCHANGED <<zone, past, connects, store, answer, asked, locals, reads, writes, externals>>

\* gracefulExit (18-23): disconnectRedis, rl.close, process.exit(0). When
\* quit() is rejected neither is reached: the promise of gracefulExit, which
\* askQuestion does not await (31), is rejected with nothing to handle it.
gracefulExit(ok, still) ==
  /\ pc = "gracefulExit"
  /\ LET after == disconnectRedis(isOpen, quits, ok, still)
     IN /\ isOpen' = after[1]
        /\ quits' = after[2]
        /\ pc' = IF after[3] THEN "rejected" ELSE "exited"
        /\ failed' = failed \cup (IF after[3] THEN {"quit"} ELSE {})
        /\ console' = console \cup
             (IF isOpen /\ ~after[3] THEN {"disconnected"} ELSE {})
  /\ UNCHANGED <<zone, past, connects, store, answer, asked, locals, reads, writes, externals>>

\* The session is over: runTerminalTool returned, the process exited, or a
\* promise was rejected with no handler and no step of the program follows
\* (the runtime ends the process, or leaves it idle).
Ended == pc \in {"closed", "exited", "rejected"}

\* The error handler connectRedis gives the client (51), before it calls
\* connect (56): the client may emit 'error' while connect() is pending and at
\* any time after, until the process exits; the handler outlives
\* runTerminalTool.
onError ==
  /\ pc # "exited"
  /\ console' = console \cup {"redisError"}
  /\ UNCHANGED <<zone, past, connects, failed, store, isOpen, pc, answer, asked, locals,
                 reads, writes, quits, externals>>

\* The session reads the attempts hash once and writes it once: a change by an
\* external system matters by where it falls around those two commands, before
\* the read, between the read and the write, or after the write.
AroundAttempt ==
  \/ pc \in {"fetchStudentExamAttempt", "addStudentExamAttempt"}
  \/ pc = "finally" /\ writes # <<>>

\* An external system acts on an attempt of student s1 while the session runs:
\* the student saves an answer or hands in, or the attempt is removed or begun.
ExternalSave(key) ==
  /\ AroundAttempt /\ externals < MaxExternal
  /\ key \in DOMAIN studentExamsNew
  /\ studentExamsNew[key].t = "json"
  /\ studentExamsNew[key].v.o.answers # "AB"
  /\ studentExamsNew' =
       [studentExamsNew EXCEPT ![key].v.o.answers = "AB"]
  /\ externals' = externals + 1
  /\ UNCHANGED <<zone, past, connects, failed, studentLoginNew, studentsssNew, isOpen, pc, answer, asked,
                 locals, reads, writes, quits, console>>

ExternalRemove(key) ==
  /\ AroundAttempt /\ externals < MaxExternal
  /\ key \in DOMAIN studentExamsNew
  /\ studentExamsNew' = hDel(studentExamsNew, key)
  /\ externals' = externals + 1
  /\ UNCHANGED <<zone, past, connects, failed, studentLoginNew, studentsssNew, isOpen, pc, answer, asked,
                 locals, reads, writes, quits, console>>

ExternalBegin(key) ==
  /\ AroundAttempt /\ externals < MaxExternal
  /\ key \notin DOMAIN studentExamsNew
  /\ studentExamsNew' =
       hSet(studentExamsNew, key,
            Json(Obj([answers |-> "A", isFinished |-> FALSE,
                      endDatetime |-> Iso(600000, 0, FALSE, 0)])))
  /\ externals' = externals + 1
  /\ UNCHANGED <<zone, past, connects, failed, studentLoginNew, studentsssNew, isOpen, pc, answer, asked,
                 locals, reads, writes, quits, console>>

\* One step of the session: runTerminalTool (168-277) or gracefulExit (18-23).
Session ==
  \/ \E ok, open \in BOOLEAN : connectRedis(ok, open)
  \/ \E line \in Lines : askEmail(line)
  \/ \E ok \in BOOLEAN : fetchStudentLogin(ok)
  \/ \E ok \in BOOLEAN : fetchStudentExams(ok)
  \/ \E line \in Lines : askChoice(line)
  \/ \E line \in Lines : askMinutes(line)
  \/ \E ok \in BOOLEAN : fetchStudentExamAttempt(ok)
  \/ \E ok \in BOOLEAN : addStudentExamAttempt(ok)
  \/ \E ok, still \in BOOLEAN : Finally(ok, still)
  \/ \E ok, still \in BOOLEAN : gracefulExit(ok, still)
  \/ onError

Next ==
  \/ Session
  \/ \E key \in OwnKeys : ExternalSave(key)
  \/ \E key \in OwnKeys : ExternalRemove(key)
  \/ \E key \in OwnKeys : ExternalBegin(key)

Spec == Init /\ [][Next]_vars

\* What a session that has ended leaves on record: the extension it made, if
\* it sent one: the field it asked for, the minutes it was given, the attempt
\* it read and whether the store took the write.
Summary ==
  IF writes = <<>> THEN <<>>
  ELSE <<[field |-> attemptKey, minutes |-> timeToAdd.n, read |-> attemptRead,
          added |-> "added" \in console]>>

\* The tool is started again (280) after a session has ended: a new process,
\* with no client (10), nothing asked and nothing read; the store is as the
\* session before left it. One earlier session is kept on record.
runTerminalTool ==
  /\ Ended
  /\ past = <<>>
  /\ past' = Append(past, Summary)
  /\ isOpen' = FALSE
  /\ pc' = "connectRedis"
  /\ answer' = <<>>
  /\ asked' = 0
  /\ studentEmail' = <<>>
  /\ student' = Undefined
  /\ studentExams' = Undefined
  /\ examChoices' = <<>>
  /\ selectedExam' = Undefined
  /\ choiceInput' = <<>>
  /\ timeToAdd' = NaN
  /\ attemptKey' = ""
  /\ examAttemptData' = Undefined
  /\ attemptRead' = Undefined
  /\ studentExamAttempt' = Undefined
  /\ reads' = [login |-> 0, exams |-> 0, attempts |-> 0]
  /\ writes' = <<>>
  /\ quits' = 0
  /\ console' = {}
  /\ connects' = 0
  /\ failed' = {}
  /\ UNCHANGED <<zone, store, externals>>

\* Two sessions one after the other, and no external system in between.
RunsNext ==
  \/ Session
  \/ runTerminalTool

SpecRuns == Init /\ [][RunsNext]_vars

\* =================================================================== claims
\* The hSet commands sent are all for the record that was read: the record a
\* command carries, and the record fetchStudentExamAttempt returned.
Written(i) == writes[i].text.v

ReadIso == Has(attemptRead, "endDatetime") /\ attemptRead.o.endDatetime.k = "iso"

\* The written endDatetime denotes the instant n minutes after the one read:
\* the same digits below the millisecond, and n * 60 * 1000 ms later.
LaterBy(w, r, n) ==
  /\ w.k = "iso"
  /\ w.frac = r.frac
  /\ InstantMs(w, zone) - InstantMs(r, zone) = n * 60 * 1000

\* C1 as stated: for every attempt read whose endDatetime is an ISO-8601
\* timestamp, the record written carries an endDatetime exactly N * 60 seconds
\* later than the one read.
C1_ExactlyLaterAnyTimestamp ==
  \A i \in 1..Len(writes) :
    ReadIso =>
      LaterBy(Prop(Written(i), "endDatetime"), attemptRead.o.endDatetime,
              timeToAdd.n)

\* C1 amended: for every attempt read whose endDatetime is an ISO-8601 timestamp
\* of at most millisecond precision, the record written carries an endDatetime
\* exactly N * 60 seconds later than the one read, N the positive number of
\* minutes entered.
C1_ExactlyLaterMillisecondTimestamp ==
  \A i \in 1..Len(writes) :
    (ReadIso /\ attemptRead.o.endDatetime.frac = 0) =>
      /\ timeToAdd.n > 0
      /\ LaterBy(Prop(Written(i), "endDatetime"), attemptRead.o.endDatetime,
                 timeToAdd.n)

\* A record whose endDatetime carries an offset other than the system's zone was
\* extended by 12 minutes.
C1_Witness ==
  /\ writes # <<>>
  /\ ReadIso
  /\ attemptRead.o.endDatetime = Iso(4200000, 0, FALSE, 60)
  /\ zone = 0
  /\ timeToAdd.n = 12

\* C2: every record increaseStudentExamTime writes has isFinished = false,
\* whatever isFinished was (true, false or absent) in the record read.
C2_WrittenNotFinished ==
  \A i \in 1..Len(writes) :
    Has(Written(i), "isFinished") /\ Written(i).o.isFinished = FALSE

\* A record read with isFinished = true was written.
C2_Witness ==
  /\ writes # <<>>
  /\ Has(attemptRead, "isFinished")
  /\ attemptRead.o.isFinished = TRUE

Touched == {"isFinished", "endDatetime"}

\* The command written is for the field read, in the attempts hash, and carries
\* every property of the record read but isFinished and endDatetime unchanged,
\* and no property more.
C3_SameRecord ==
  \A i \in 1..Len(writes) :
    /\ writes[i].hash = "student-exams-new"
    /\ writes[i].field = attemptKey
    /\ Written(i).k = "object"
    /\ DOMAIN Written(i).o = DOMAIN attemptRead.o \cup Touched
    /\ \A f \in DOMAIN attemptRead.o \ Touched : Written(i).o[f] = attemptRead.o[f]

\* A step of the session leaves the login and exam-list hashes as they are, and
\* a step that sends hSet leaves every other field of the attempts hash as it is.
C3_Step ==
  /\ studentLoginNew' = studentLoginNew
  /\ studentsssNew' = studentsssNew
  /\ writes' # writes =>
       \A f \in (DOMAIN studentExamsNew \cup DOMAIN studentExamsNew') \ {attemptKey} :
         /\ f \in DOMAIN studentExamsNew
         /\ f \in DOMAIN studentExamsNew'
         /\ studentExamsNew'[f] = studentExamsNew[f]

\* C3: an extension changes nothing but endDatetime and isFinished of the one
\* attempt record: the other fields are written as read, under the key read, and
\* no login entry, exam-list entry or other attempt is written.
C3_OnlyTwoFieldsOfOneRecord == [](C3_SameRecord) /\ [][C3_Step]_vars

\* A record with another field was written back to the store while another
\* attempt of the student and an attempt of another student were stored.
C3_Witness ==
  /\ writes # <<>>
  /\ "added" \in console
  /\ attemptRead.o.answers = "A"
  /\ OtherKey \in DOMAIN studentExamsNew
  /\ attemptKey = AttemptKey("s1", "e2")

\* C4: when the read of the attempt finds no record, the operation aborts and
\* no hSet is sent.
C4_MissingAttemptNoWrite ==
  (reads.attempts > 0 /\ examAttemptData.k = "null") =>
    /\ writes = <<>>
    /\ pc \in {"finally", "closed", "rejected"}

\* The read was answered with no record and the session ended.
C4_Witness ==
  /\ reads.attempts = 1
  /\ examAttemptData.k = "null"
  /\ "noAttempt" \in console
  /\ pc = "closed"

\* C5 as stated: after an hSet of the tool, a field of the attempts hash is
\* present only if it was present immediately before that hSet.
C5_NeverCreatesAttempt ==
  [][writes' # writes => DOMAIN studentExamsNew' \subseteq DOMAIN studentExamsNew]_vars

\* The lines of Lines that are the cancellation token in some letter case, with
\* or without white space around it.
CancelLines == {ExitWord, <<"\t", "E", "x", "I", "T", " ">>}

\* gracefulExit runs, or has ended the process: by process.exit or, when
\* quit() was rejected, by the rejection nothing handles.
Exiting ==
  \/ pc \in {"gracefulExit", "exited"}
  \/ pc = "rejected" /\ "exiting" \in console

\* After the token the session is in gracefulExit or has ended there, and
\* gracefulExit can always finish.
C6_State ==
  /\ answer \in CancelLines => Exiting
  /\ pc = "gracefulExit" => ENABLED (\E ok, still \in BOOLEAN : gracefulExit(ok, still))

\* From the step that takes the token on, no hSet is sent and the session
\* changes nothing in the store.
C6_Step ==
  Exiting' =>
    /\ writes' = writes
    /\ externals' = externals => studentExamsNew' = studentExamsNew

\* C6: the cancellation token ('exit' in any letter case, white space around it
\* ignored) entered at any of the three prompts ends the session, and no store
\* write is made at or after the moment it is entered.
C6_CancelEndsWithoutWrite == [](C6_State) /\ [][C6_Step]_vars

\* The token, in mixed case and with blanks, was entered at the minutes prompt
\* and the process exited.
C6_Witness ==
  /\ pc = "exited"
  /\ answer = <<"\t", "E", "x", "I", "T", " ">>
  /\ Truthy(selectedExam)
  /\ writes = <<>>

\* A session that ended with a connection sent quit, once; the connection is
\* closed unless the store rejected the quit.
C7_State ==
  Ended =>
    /\ "connected" \in console => quits = 1
    /\ "quit" \notin failed => ~isOpen

\* Once quit is sent no hGet and no hSet follows.
C7_Step == quits > 0 => (reads' = reads /\ writes' = writes)

\* C7: on every path by which a session ends, an open store connection is
\* released (quit) before the session terminates, and no store read or write is
\* issued after the release.
C7_ReleasedOnEveryEnd == [](C7_State) /\ [][C7_Step]_vars

\* A session that caught an error with the connection open has ended.
C7_Witness ==
  /\ pc = "closed"
  /\ "caught" \in console
  /\ "connected" \in console
  /\ quits = 1

\* The lines of Lines that are no positive number of minutes.
RejectedMinutes ==
  {<<"0">>, <<"-", "1">>, <<"x", "2">>, <<>>, <<"b">>, <<"c">>, <<" ", "a">>}

InExtension == pc \in {"fetchStudentExamAttempt", "addStudentExamAttempt"}

\* The extension runs with a positive whole number of minutes, entered by a
\* line that is one.
C8_State ==
  /\ (InExtension \/ reads.attempts > 0 \/ writes # <<>>) =>
       (~timeToAdd.nan /\ timeToAdd.n > 0)
  /\ InExtension => answer \notin RejectedMinutes

\* A rejected line at the minutes prompt keeps the session at the prompt and
\* sends neither hGet nor hSet.
C8_Step ==
  (pc = "askMinutes" /\ asked' # asked /\ answer' \in RejectedMinutes) =>
    (pc' = "askMinutes" /\ reads' = reads /\ writes' = writes)

\* C8: non-positive or non-numeric minute input is rejected and re-prompted: the
\* extension step is reached only with a positive integer of minutes, and no
\* store read or write happens while the minutes prompt rejects input.
C8_OnlyPositiveMinutesExtend == [](C8_State) /\ [][C8_Step]_vars

\* The extension was reached after the minutes prompt had rejected a line.
C8_Witness ==
  /\ pc = "fetchStudentExamAttempt"
  /\ "invalidMinutes" \in console
  /\ timeToAdd.n = 2

\* The number of the selection entered is the index of a listed exam, the exam
\* selected is the one listed under it, and the extension reads and writes the
\* attempt of that exam.
C9_State ==
  /\ pc \in {"askMinutes", "fetchStudentExamAttempt", "addStudentExamAttempt"} =>
       Truthy(selectedExam)
  /\ Truthy(selectedExam) =>
       LET p == parseInt(choiceInput)
       IN /\ ~p.nan
          /\ p.n \in 1..Len(examChoices)
          /\ selectedExam.o.id = examChoices[p.n].examId
          /\ reads.attempts > 0 =>
               attemptKey = AttemptKey(student.o.id, examChoices[p.n].examId)
          /\ \A i \in 1..Len(writes) :
               writes[i].field = AttemptKey(student.o.id, examChoices[p.n].examId)

\* A line whose number is no index of the list keeps the session at the
\* selection prompt.
C9_Step ==
  (/\ pc = "askChoice"
   /\ asked' # asked
   /\ answer' \notin CancelLines
   /\ LET p == parseInt(trim(answer'))
      IN p.nan \/ p.n \notin 1..Len(examChoices)) =>
    pc' = "askChoice"

\* C9: an exam index outside the listed range 1..k is rejected and re-prompted:
\* the minutes prompt is reached only after an input whose number is the index
\* of a listed exam, and the exam then extended is the one listed under it.
C9_OnlyListedIndexSelects == [](C9_State) /\ [][C9_Step]_vars

\* With one exam listed (the other has no title), an index was rejected and then
\* index 1 selected the listed exam e2.
C9_Witness ==
  /\ pc = "askMinutes"
  /\ "invalidSelection" \in console
  /\ Len(examChoices) = 1
  /\ selectedExam.o.id = "e2"

PastIdentifier ==
  \/ pc \in {"fetchStudentExams", "askChoice", "askMinutes",
             "fetchStudentExamAttempt", "addStudentExamAttempt"}
  \/ reads.exams > 0
  \/ reads.attempts > 0
  \/ writes # <<>>

\* The identifier entered names a login record.
Resolves ==
  /\ studentEmail \in DOMAIN studentLoginNew
  /\ studentLoginNew[studentEmail].t = "json"

\* Past the identifier prompt the identifier entered resolves.
C10_State == PastIdentifier => Resolves

\* The lookup of an identifier that resolves to nothing returns to the prompt
\* and sends no hGet for exam lists or attempts and no hSet.
C10_Step ==
  (pc = "fetchStudentLogin" /\ reads' # reads /\ ~Resolves) =>
    /\ pc' = "askEmail"
    /\ reads'.exams = reads.exams
    /\ reads'.attempts = reads.attempts
    /\ writes' = writes

\* C10: the session moves past the identifier prompt only when the identifier
\* entered resolves to an existing student-login record; otherwise it re-prompts
\* and reads no exam list or attempt and writes nothing.
C10_OnlyResolvedIdentifierPasses == [](C10_State) /\ [][C10_Step]_vars

\* An identifier was not found, and the next one entered was.
C10_Witness ==
  /\ pc = "askChoice"
  /\ "notFound" \in console
  /\ Resolves

\* ------------------------------------------------------- successive sessions
\* The session before this one extended an attempt, and this session extended
\* the same attempt by the same number of minutes; the store took both writes.
TwoExtensions ==
  /\ past # <<>> /\ past[1] # <<>>
  /\ past[1][1].added
  /\ writes # <<>> /\ "added" \in console
  /\ attemptKey = past[1][1].field
  /\ timeToAdd.n = past[1][1].minutes

\* The endDatetime the first of the two sessions read, and the one stored now.
OriginalEnd == past[1][1].read.o.endDatetime

StoredEnd == Prop(studentExamsNew[attemptKey].v, "endDatetime")

\* C11 as stated: after two successive successful sessions for the same student
\* and exam with N minutes each, the stored endDatetime is exactly 2 * N * 60
\* seconds later than the ISO-8601 timestamp the first session read.
C11_TwiceLaterAnyTimestamp ==
  (TwoExtensions /\ Has(past[1][1].read, "endDatetime") /\ OriginalEnd.k = "iso") =>
    LaterBy(StoredEnd, OriginalEnd, 2 * timeToAdd.n)

\* C11 amended: after two successive successful sessions for the same student
\* and exam with N minutes each, the stored endDatetime is exactly 2 * N * 60
\* seconds later than the timestamp the first session read, when that timestamp
\* has at most millisecond precision.
C11_TwiceLaterMillisecondTimestamp ==
  (/\ TwoExtensions
   /\ Has(past[1][1].read, "endDatetime")
   /\ OriginalEnd.k = "iso"
   /\ OriginalEnd.frac = 0) =>
    LaterBy(StoredEnd, OriginalEnd, 2 * timeToAdd.n)

\* Two sessions in a zone one hour east of UTC extended by 12 minutes each an
\* attempt whose endDatetime was written in UTC.
C11_Witness ==
  /\ TwoExtensions
  /\ Has(past[1][1].read, "endDatetime")
  /\ OriginalEnd = Iso(600000, 0, FALSE, 0)
  /\ zone = 60
  /\ timeToAdd.n = 12
  /\ StoredEnd = Iso(600000 + 24 * 60 * 1000 + 60 * 60 * 1000, 0, FALSE, 60)

\* ------------------------------------------------------- failed connection
\* After a connect() that failed: one connection attempt, the failure on the
\* console, nothing asked, nothing read and nothing written; the session is in
\* its finally block, which can always finish, or has ended.
C12_State ==
  "connect" \in failed =>
    /\ connects = 1
    /\ {"connectFailed", "caught"} \subseteq console
    /\ asked = 0
    /\ reads = [login |-> 0, exams |-> 0, attempts |-> 0]
    /\ writes = <<>>
    /\ pc \in {"finally", "closed", "rejected"}
    /\ pc = "finally" => ENABLED (\E ok, still \in BOOLEAN : Finally(ok, still))

\* The session's only step after the failure is the one that ends it.
C12_Step ==
  ("connect" \in failed /\ pc' # pc) => (pc = "finally" /\ Ended')

\* C12: when connectRedis fails, no prompt is issued, no store read or write is
\* performed, no second connection attempt is made, and the session ends.
C12_FailedConnectionEndsSession == [](C12_State) /\ [][C12_Step]_vars

\* The connection failed, the client reported itself open all the same, and
\* the session has ended.
C12_Witness ==
  /\ "connect" \in failed
  /\ pc = "closed"
  /\ quits = 1
  /\ asked = 0

\* ------------------------------------------------ failures during extension
ExtensionFailures == {"hGet attempt", "hSet"}

\* A failed read of the attempt is on the console, counts as no attempt, and
\* no write and no success line follow; a failed write is on the console; in
\* both cases the error never reached the catch of runTerminalTool, and the
\* session is in its finally block, which can always finish, or has ended.
C13_State ==
  /\ "hGet attempt" \in failed =>
       /\ {"fetchError", "noAttempt"} \subseteq console
       /\ writes = <<>>
       /\ "success" \notin console
  /\ "hSet" \in failed => "addFailed" \in console
  /\ failed \cap ExtensionFailures # {} =>
       /\ "caught" \notin console
       /\ pc \in {"finally", "closed", "rejected"}
       /\ pc = "finally" => ENABLED (\E ok, still \in BOOLEAN : Finally(ok, still))

\* After a failed read of the attempt the session sends no hSet and changes
\* nothing in the store.
C13_Step ==
  "hGet attempt" \in failed =>
    /\ writes' = writes
    /\ externals' = externals => studentExamsNew' = studentExamsNew

\* C13: a failed hGet or hSet during the extension is logged, no exception from
\* it escapes increaseStudentExamTime or runTerminalTool (the session goes on to
\* its orderly end), and a failed read of the attempt is followed by no write.
C13_ExtensionFailuresContained == [](C13_State) /\ [][C13_Step]_vars

\* The attempt exists in the store, reading it failed, and the session ended
\* in order with the connection released.
C13_Witness ==
  /\ "hGet attempt" \in failed
  /\ attemptKey \in DOMAIN studentExamsNew
  /\ pc = "closed"
  /\ quits = 1

\* ------------------------------------------------------- commands of a run
\* increaseStudentExamTime ran to its status line (159-161).
RanToSuccessLine == "success" \in console

\* The hGet commands of the whole session, and those increaseStudentExamTime
\* sent itself.
SessionReads == reads.login + reads.exams + reads.attempts

ExtensionReads == reads.attempts

\* C14 as stated: a run of the extension that reached its success line made
\* exactly two store reads (counted for the operation or for the session) and
\* exactly one store write.
C14_TwoReadsOneWrite ==
  RanToSuccessLine =>
    /\ ExtensionReads = 2 \/ SessionReads = 2
    /\ Len(writes) = 1

\* C14 amended: a run of the extension that reached its success line made
\* exactly one store read of its own (the attempt) and exactly one store write;
\* with the reads that resolved the student and the exam list the session made
\* three reads or more, one of them of the exam list.
C14_OneReadOneWrite ==
  RanToSuccessLine =>
    /\ ExtensionReads = 1
    /\ Len(writes) = 1
    /\ reads.exams = 1
    /\ reads.login >= 1
    /\ SessionReads >= 3

\* The student was found at the second try and the extension was written: four
\* reads in the session, one of them by the extension.
C14_Witness ==
  /\ RanToSuccessLine
  /\ "added" \in console
  /\ reads.login = 2
  /\ SessionReads = 4

\* ------------------------------------------------------------ failed write
\* C15: the status line 'Successfully increased time ...' is printed only if
\* the store took the write: after an hSet that failed the operation reports
\* no success.
C15_SuccessOnlyAfterWrite ==
  "success" \in console => ("added" \in console /\ "hSet" \notin failed)

\* ---------------------------------------------------- forms of the exam list
\* The line typed at the selection prompt is the number of a listed exam.
ListedNumber(line) ==
  LET parsed == parseInt(trim(line))
  IN ~parsed.nan /\ parsed.n \in 1..Len(examChoices)

\* The selection prompt took the number of a listed exam: the session stands
\* at the minutes prompt with that exam selected.
C16_Step ==
  (/\ pc = "askChoice"
   /\ asked' = asked + 1
   /\ answer' \notin CancelLines
   /\ ListedNumber(answer')) =>
    /\ pc' = "askMinutes"
    /\ Has(selectedExam', "id")
    /\ selectedExam'.o.id = examChoices[parseInt(trim(answer')).n].examId

\* C16: whether the exam list is stored as a JSON array or as a JSON object of
\* exam descriptors, entering the number of a listed exam selects that exam and
\* the session proceeds to the minutes prompt.
C16_ListedNumberSelectsInBothForms == [][C16_Step]_vars

\* --------------------------------------------------------- read-modify-write
\* What the store holds under the field the session read differs from what the
\* read returned: an external system changed or deleted the record since.
ChangedSinceRead == hGet(studentExamsNew, attemptKey) # examAttemptData

\* The stored text is a record with the properties of the record the session
\* read, each with the value read except isFinished and endDatetime.
HoldsValuesRead(text) ==
  /\ text.k = "string" /\ text.t = "json"
  /\ DOMAIN text.v.o = DOMAIN attemptRead.o \cup Touched
  /\ \A f \in DOMAIN attemptRead.o \ Touched : text.v.o[f] = attemptRead.o[f]

\* A write the store takes after the record changed since the read leaves
\* the field present, holding the values read.
C17_Step ==
  (/\ writes' # writes
   /\ "hSet" \notin failed'
   /\ ChangedSinceRead) =>
    /\ attemptKey \in DOMAIN studentExamsNew'
    /\ HoldsValuesRead(studentExamsNew'[attemptKey])

\* C17: if an external system changes or deletes the attempt record between
\* the tool's read and the tool's write, the write overwrites the whole record
\* with the values read earlier: the external change is lost, and a deleted
\* record is created again.
C17_WriteOverwritesExternalChange == [][C17_Step]_vars

\* The session read a finished attempt with answers "A" and the store took its
\* write; one external change was made, and it was to this record (the other
\* attempt of the student was never begun); the record is there, with answers
\* "A": the change, an answer saved or the record deleted, came between the
\* read and the write and is gone.
C17_Witness ==
  /\ "added" \in console
  /\ externals = 1
  /\ Prop(attemptRead, "isFinished") = TRUE
  /\ attemptRead.o.answers = "A"
  /\ OwnKeys \cap DOMAIN studentExamsNew = {attemptKey}
  /\ studentExamsNew[attemptKey].v.o.answers = "A"

\* ------------------------------------------------------ the write of a session
\* The three prompts were answered with accepted input: an identifier that
\* resolved to a student, the number of a listed exam, a positive number of
\* minutes.
ThreeAccepted ==
  /\ asked >= 3
  /\ {"found", "selected"} \subseteq console
  /\ Has(student, "id") /\ Has(selectedExam, "id")
  /\ ~timeToAdd.nan /\ timeToAdd.n > 0

\* The session read the attempt of the resolved student and the selected exam,
\* once, and the read returned a record.
AttemptWasRead ==
  /\ reads.attempts = 1
  /\ attemptKey = student.o.id \o "-" \o selectedExam.o.id
  /\ examAttemptData.k = "string"
  /\ attemptRead.k = "object"

\* C18: a session performs at most one store write, and that write happens
\* only after all three prompts were answered with accepted input and a read of
\* the attempt '<studentId>-<examId>' of the resolved student and the selected
\* exam returned a record in the same session.
C18_OneWriteAfterPromptsAndRead ==
  /\ Len(writes) <= 1
  /\ writes # <<>> =>
       /\ ThreeAccepted
       /\ AttemptWasRead
       /\ writes[1].field = attemptKey

\* A session that needed four answers (one was rejected) sent its one write.
C18_Witness ==
  /\ Len(writes) = 1
  /\ asked = 4
  /\ pc = "closed"

\* ------------------------------------------------- endDatetime that is no date
\* The session read an attempt record whose endDatetime is missing or is no
\* ISO-8601 timestamp.
ReadWithoutDate == attemptRead.k = "object" /\ ~ReadIso

\* C19: if the attempt record read has an endDatetime that is missing or does
\* not parse as an ISO-8601 timestamp, the extension does not abort: the
\* session goes on to the write, and the record written has isFinished = false
\* and endDatetime null, the value read being lost.
C19_UnparsedEndBecomesNull ==
  ReadWithoutDate =>
    /\ pc = "addStudentExamAttempt" \/ Len(writes) = 1
    /\ "noAttempt" \notin console
    /\ \A i \in 1..Len(writes) :
         /\ Has(Written(i), "isFinished") /\ Written(i).o.isFinished = FALSE
         /\ Has(Written(i), "endDatetime") /\ Written(i).o.endDatetime = Null

\* An attempt whose endDatetime was the text "soon" is stored with endDatetime
\* null and isFinished false.
C19_Witness ==
  /\ "added" \in console
  /\ Prop(attemptRead, "endDatetime") = Text("soon")
  /\ attemptKey \in DOMAIN studentExamsNew
  /\ studentExamsNew[attemptKey].v.o.endDatetime = Null
  /\ studentExamsNew[attemptKey].v.o.isFinished = FALSE

====
